---------------------------- MODULE Spec2Model ----------------------------
(***************************************************************************)
(* The task scheduler of veyra (src/src/veyra/runtime/scheduler.py): a     *)
(* heapq-backed Ready Queue, a running dict, a completed dict, a handler   *)
(* registry and an in-flight counter, driven by asyncio coroutines.        *)
(*                                                                         *)
(* Atomicity.  The scheduler runs on one asyncio event loop.  A coroutine  *)
(* gives up control only at an await that really suspends.  The lock       *)
(* self._lock is never held across such an await (no `async with` body     *)
(* contains one), so every acquire takes asyncio.Lock's uncontended path   *)
(* and does not suspend.  The steps of the model are therefore:            *)
(*   - a caller's call of register_handler, submit or cancel;              *)
(*   - one run of a _process_queue task created by asyncio.create_task;    *)
(*   - the start of an _execute_task task, up to the await of the handler  *)
(*     (through to the end of the coroutine when no handler is found);     *)
(*   - the rest of _execute_task once the awaited handler has returned,    *)
(*     raised or timed out.                                                *)
(* Tasks are objects shared by reference between the caller and the three  *)
(* containers: the model keeps the objects in `tasks` and the containers   *)
(* hold task ids.                                                          *)
(***************************************************************************)
EXTENDS Integers, Sequences, FiniteSets, Bags, TLC

(***************************************************************************)
(* Bounds of the model.                                                    *)
(***************************************************************************)
MaxTasks == 2
MaxOrderTasks == 3
MaxConcurrent == 1
MaxDispatches == 2

(***************************************************************************)
(* Program constants.                                                      *)
(***************************************************************************)
CRITICAL == 0
HIGH == 1
NORMAL == 2
LOW == 3
DefaultMaxRetries == 3

PENDING == "pending"
QUEUED == "queued"
RUNNING == "running"
COMPLETED == "completed"
FAILED == "failed"
CANCELLED == "cancelled"

\* Python's None for result and error; a value v is <<v>>.
None == <<>>
\* What self._handlers.get(name) gives for a name that is not registered.
NoHandler == "None"

\* Task names and handlers, as the tests use them: `double` returns
\* value * 2, `tracking_handler` returns None.
Names == {"double", "track"}
Handlers == {"double_handler", "tracking_handler"}
Payloads == {21}
\* created_at: two instants of datetime.utcnow().
CreationTimes == {0, 1}
\* max_retries as callers set it: 2 in the retry test, 0 for no retry.
RetryBudgets == 0..2

HandlerReturn(h, p) == IF h = "double_handler" THEN <<p * 2>> ELSE None

\* task.error after a timeout, after a handler's exception, after a miss
\* in the registry.
TimeoutError == <<"Task timed out">>
HandlerError == <<"Intentional failure">>
\* Fault variant: the message is formatted without the task's name.
NoHandlerError_Unnamed(n) == <<"No handler registered for: ", "unnamed">>
NoHandlerError(n) == <<"No handler registered for: ", n>>

VARIABLES
    max_concurrent,   \* self.max_concurrent
    queue,            \* self._queue: the heap array, as task ids
    running,          \* self._running: the keys of the dict
    completed,        \* self._completed: the keys of the dict
    handlers,         \* self._handlers
    running_count,    \* self._running_count
    tasks,            \* the Task objects, by task id (index = order of submission)
    dispatches,       \* _process_queue tasks created and not yet run
    execs,            \* bag of _execute_task coroutines in flight
    cancelledQueued,  \* history: ids on which cancel was called while queued
    pausedSubmits,    \* history: ids submitted while max_concurrent was 0
    attempts          \* history: handler invocations, per task

vars == <<max_concurrent, queue, running, completed, handlers, running_count,
          tasks, dispatches, execs, cancelledQueued, pausedSubmits, attempts>>

TaskIds == DOMAIN tasks

(***************************************************************************)
(* heapq over Task.__lt__.  @dataclass(order=True) compares the tuples     *)
(* (priority, created_at); every other field is compare=False.             *)
(***************************************************************************)
\* Fault variant: priority left out of the comparison (compare=False on priority).
TaskLT_ByTimeOnly(a, b, T) == T[a].created_at < T[b].created_at

TaskLT(a, b, T) ==
    \/ T[a].priority < T[b].priority
    \/ T[a].priority = T[b].priority /\ T[a].created_at < T[b].created_at

\* heapq._siftdown(heap, startpos, pos); positions are 0-based as in Python.
RECURSIVE SiftDownLoop(_, _, _, _, _)
SiftDownLoop(heap, startpos, pos, newitem, T) ==
    IF pos > startpos
    THEN LET parentpos == (pos - 1) \div 2
             parent == heap[parentpos + 1]
         IN  IF TaskLT(newitem, parent, T)
             THEN SiftDownLoop([heap EXCEPT ![pos + 1] = parent],
                               startpos, parentpos, newitem, T)
             ELSE [heap EXCEPT ![pos + 1] = newitem]
    ELSE [heap EXCEPT ![pos + 1] = newitem]

SiftDown(heap, startpos, pos, T) ==
    SiftDownLoop(heap, startpos, pos, heap[pos + 1], T)

\* heapq._siftup(heap, pos): bubble the smaller child up to a leaf, then
\* sift the displaced item down from there.
RECURSIVE SiftUpLoop(_, _, _, _, _, _)
SiftUpLoop(heap, startpos, pos, childpos, newitem, T) ==
    IF childpos < Len(heap)
    THEN LET rightpos == childpos + 1
             c == IF /\ rightpos < Len(heap)
                     /\ ~TaskLT(heap[childpos + 1], heap[rightpos + 1], T)
                  THEN rightpos
                  ELSE childpos
         IN  SiftUpLoop([heap EXCEPT ![pos + 1] = heap[c + 1]],
                        startpos, c, 2 * c + 1, newitem, T)
    ELSE SiftDown([heap EXCEPT ![pos + 1] = newitem], startpos, pos, T)

SiftUp(heap, pos, T) ==
    SiftUpLoop(heap, pos, pos, 2 * pos + 1, heap[pos + 1], T)

\* Fault variant: list.append in place of heapq.heappush.
HeapPush_AppendOnly(heap, item, T) == Append(heap, item)

\* heapq.heappush(heap, item)
HeapPush(heap, item, T) ==
    SiftDown(Append(heap, item), 0, Len(heap), T)

\* heapq.heappop(heap): the item returned and the heap left behind.
HeapPopItem(heap) == heap[1]

HeapPopRest(heap, T) ==
    IF Len(heap) = 1
    THEN <<>>
    ELSE SiftUp([SubSeq(heap, 1, Len(heap) - 1) EXCEPT ![1] = heap[Len(heap)]],
                0, T)

\* heapq.heapify(x): for i in reversed(range(n // 2)): _siftup(x, i)
RECURSIVE HeapifyLoop(_, _, _)
HeapifyLoop(x, i, T) ==
    IF i < 0 THEN x ELSE HeapifyLoop(SiftUp(x, i, T), i - 1, T)

\* Fault variant: the rebuilt list is left as it is, heapify is not called.
Heapify_Skipped(x, T) == x

Heapify(x, T) == HeapifyLoop(x, (Len(x) \div 2) - 1, T)

InSeq(q, id) == \E i \in 1..Len(q) : q[i] = id

InQueue(id) == InSeq(queue, id)

(***************************************************************************)
(* Task.create and the dataclass defaults: a fresh task is PENDING with no *)
(* result, no error and retries 0; the caller may set max_retries.         *)
(***************************************************************************)
NewTask(p, c, n, pl, mr) ==
    [priority |-> p, created_at |-> c, name |-> n, payload |-> pl,
     status |-> PENDING, result |-> None, error |-> None,
     retries |-> 0, max_retries |-> mr]

\* An _execute_task coroutine: created by create_task and not yet started,
\* or suspended in the await of the handler it resolved.
Exec(t, pc, h) == [task |-> t, pc |-> pc, handler |-> h]

One(e) == SetToBag({e})

\* asyncio.create_task(self._process_queue()).  A pass that finds nothing to
\* pop changes nothing, so passes pending beyond MaxDispatches are not counted.
CreateDispatch(n) == IF n < MaxDispatches THEN n + 1 ELSE n

\* TaskScheduler(max_concurrent=N)
Init ==
    /\ max_concurrent \in 0..MaxConcurrent
    /\ queue = <<>>
    /\ running = {}
    /\ completed = {}
    /\ handlers = [n \in Names |-> NoHandler]
    /\ running_count = 0
    /\ tasks = <<>>
    /\ dispatches = 0
    /\ execs = EmptyBag
    /\ cancelledQueued = {}
    /\ pausedSubmits = {}
    /\ attempts = <<>>

(***************************************************************************)
(* register_handler(task_type, handler)                                    *)
(***************************************************************************)
RegisterHandler(n, h) ==
    /\ handlers' = [handlers EXCEPT ![n] = h]
    /\ UNCHANGED <<max_concurrent, queue, running, completed, running_count,
                   tasks, dispatches, execs, cancelledQueued, pausedSubmits,
                   attempts>>

(***************************************************************************)
(* submit(task): the task becomes QUEUED, is pushed on the heap and a      *)
(* _process_queue task is created.  The id is the next free one.           *)
(***************************************************************************)
\* return task.task_id: the id of the task just pushed.
SubmitReturn == Len(tasks) + 1

\* Fault variant: the task is pushed without its status being set.
SubmitTask_LeavesPending(p, c, n, pl, mr) ==
    LET id == Len(tasks) + 1
        T1 == Append(tasks, NewTask(p, c, n, pl, mr))
    IN  /\ tasks' = T1
        /\ queue' = HeapPush(queue, id, T1)
        /\ dispatches' = CreateDispatch(dispatches)
        /\ attempts' = Append(attempts, 0)
        /\ pausedSubmits' = IF max_concurrent = 0
                            THEN pausedSubmits \cup {id}
                            ELSE pausedSubmits
        /\ UNCHANGED <<max_concurrent, running, completed, handlers,
                       running_count, execs, cancelledQueued>>

SubmitTask(p, c, n, pl, mr) ==
    LET id == Len(tasks) + 1
        T1 == Append(tasks, [NewTask(p, c, n, pl, mr) EXCEPT !.status = QUEUED])
    IN  /\ tasks' = T1
        /\ queue' = HeapPush(queue, id, T1)
        /\ dispatches' = CreateDispatch(dispatches)
        /\ attempts' = Append(attempts, 0)
        /\ pausedSubmits' = IF max_concurrent = 0
                            THEN pausedSubmits \cup {id}
                            ELSE pausedSubmits
        /\ UNCHANGED <<max_concurrent, running, completed, handlers,
                       running_count, execs, cancelledQueued>>

(***************************************************************************)
(* _process_queue: under the lock, pop while the queue is not empty and    *)
(* the counter is below max_concurrent; each popped task is entered in     *)
(* _running, counted, and an _execute_task task is created for it.         *)
(***************************************************************************)
\* Fault variant: the pass reads the head of the heap (self._queue[0]) and
\* leaves it in the queue.
RECURSIVE ProcessLoop_PeeksOnly(_, _, _, _, _, _)
ProcessLoop_PeeksOnly(q, run, cnt, ex, mc, T) ==
    IF q # <<>> /\ cnt < mc
    THEN LET task == HeapPopItem(q)
         IN  ProcessLoop_PeeksOnly(q, run \cup {task}, cnt + 1,
                                   ex (+) One(Exec(task, "created", NoHandler)),
                                   mc, T)
    ELSE [queue |-> q, running |-> run, running_count |-> cnt, execs |-> ex]

\* Fault variant: the loop pops while the queue is not empty, whatever the
\* counter.
RECURSIVE ProcessLoop_IgnoresLimit(_, _, _, _, _, _)
ProcessLoop_IgnoresLimit(q, run, cnt, ex, mc, T) ==
    IF q # <<>>
    THEN LET task == HeapPopItem(q)
         IN  ProcessLoop_IgnoresLimit(HeapPopRest(q, T), run \cup {task}, cnt + 1,
                                      ex (+) One(Exec(task, "created", NoHandler)),
                                      mc, T)
    ELSE [queue |-> q, running |-> run, running_count |-> cnt, execs |-> ex]

\* Fault variant: the loop tests <= max_concurrent.
RECURSIVE ProcessLoop_OffByOne(_, _, _, _, _, _)
ProcessLoop_OffByOne(q, run, cnt, ex, mc, T) ==
    IF q # <<>> /\ cnt <= mc
    THEN LET task == HeapPopItem(q)
         IN  ProcessLoop_OffByOne(HeapPopRest(q, T), run \cup {task}, cnt + 1,
                                  ex (+) One(Exec(task, "created", NoHandler)),
                                  mc, T)
    ELSE [queue |-> q, running |-> run, running_count |-> cnt, execs |-> ex]

RECURSIVE ProcessLoop(_, _, _, _, _, _)
ProcessLoop(q, run, cnt, ex, mc, T) ==
    IF q # <<>> /\ cnt < mc
    THEN LET task == HeapPopItem(q)
         IN  ProcessLoop(HeapPopRest(q, T), run \cup {task}, cnt + 1,
                         ex (+) One(Exec(task, "created", NoHandler)), mc, T)
    ELSE [queue |-> q, running |-> run, running_count |-> cnt, execs |-> ex]

ProcessQueue ==
    LET r == ProcessLoop(queue, running, running_count, execs,
                         max_concurrent, tasks)
    IN  /\ dispatches > 0
        /\ dispatches' = dispatches - 1
        /\ queue' = r.queue
        /\ running' = r.running
        /\ running_count' = r.running_count
        /\ execs' = r.execs
        /\ UNCHANGED <<max_concurrent, completed, handlers, tasks,
                       cancelledQueued, pausedSubmits, attempts>>

(***************************************************************************)
(* _execute_task, the three ways out of the try block.  Each gives the     *)
(* task table and the queue it leaves (the source's order of the except    *)
(* clauses is timeout first).                                              *)
(***************************************************************************)
\* Fault variant: the handler's value is awaited and not stored.
OnSuccess_DropsResult(T, q, t, h) ==
    [tasks |-> [T EXCEPT ![t].status = COMPLETED], queue |-> q]

\* task.result = <the handler's value>; task.status = COMPLETED
OnSuccess(T, q, t, h) ==
    [tasks |-> [T EXCEPT ![t].result = HandlerReturn(h, T[t].payload),
                         ![t].status = COMPLETED],
     queue |-> q]

\* Fault variant: the retry appends the task to the list, without heappush.
OnException_AppendsOnRetry(T, q, t, err) ==
    LET T1 == [T EXCEPT ![t].error = err, ![t].retries = @ + 1]
    IN  IF T1[t].retries < T1[t].max_retries
        THEN LET T2 == [T1 EXCEPT ![t].status = QUEUED]
             IN  [tasks |-> T2, queue |-> Append(q, t)]
        ELSE [tasks |-> [T1 EXCEPT ![t].status = FAILED], queue |-> q]

\* Fault variant: the failed attempt is not counted.
OnException_SkipsCount(T, q, t, err) ==
    LET T1 == [T EXCEPT ![t].error = err]
    IN  IF T1[t].retries < T1[t].max_retries
        THEN LET T2 == [T1 EXCEPT ![t].status = QUEUED]
             IN  [tasks |-> T2, queue |-> HeapPush(q, t, T2)]
        ELSE [tasks |-> [T1 EXCEPT ![t].status = FAILED], queue |-> q]

\* Fault variant: the retry test is retries <= max_retries.
OnException_RetryOnEqual(T, q, t, err) ==
    LET T1 == [T EXCEPT ![t].error = err, ![t].retries = @ + 1]
    IN  IF T1[t].retries <= T1[t].max_retries
        THEN LET T2 == [T1 EXCEPT ![t].status = QUEUED]
             IN  [tasks |-> T2, queue |-> HeapPush(q, t, T2)]
        ELSE [tasks |-> [T1 EXCEPT ![t].status = FAILED], queue |-> q]

\* except Exception as e
OnException(T, q, t, err) ==
    LET T1 == [T EXCEPT ![t].error = err, ![t].retries = @ + 1]
    IN  IF T1[t].retries < T1[t].max_retries
        THEN LET T2 == [T1 EXCEPT ![t].status = QUEUED]
             IN  [tasks |-> T2, queue |-> HeapPush(q, t, T2)]
        ELSE [tasks |-> [T1 EXCEPT ![t].status = FAILED], queue |-> q]

\* Fault variant: the timeout falls through to `except Exception`.
OnTimeout_AsException(T, q, t) == OnException(T, q, t, TimeoutError)

\* except asyncio.TimeoutError
OnTimeout(T, q, t) ==
    [tasks |-> [T EXCEPT ![t].error = TimeoutError, ![t].status = FAILED],
     queue |-> q]

\* Fault variant: the finally block does not decrement the counter.
Finally_KeepsCount(t) ==
    /\ running' = running \ {t}
    /\ completed' = completed \cup {t}
    /\ running_count' = running_count
    /\ dispatches' = CreateDispatch(dispatches)

\* Fault variant: the finally block does not enter the task in _completed.
Finally_NoRecord(t) ==
    /\ running' = running \ {t}
    /\ completed' = completed
    /\ running_count' = running_count - 1
    /\ dispatches' = CreateDispatch(dispatches)

\* Fault variant: the finally block does not create a _process_queue task.
Finally_NoDispatch(t) ==
    /\ running' = running \ {t}
    /\ completed' = completed \cup {t}
    /\ running_count' = running_count - 1
    /\ dispatches' = dispatches

\* finally: leave _running, enter _completed, decrement the counter, and
\* create a _process_queue task.
Finally(t) ==
    /\ running' = running \ {t}
    /\ completed' = completed \cup {t}
    /\ running_count' = running_count - 1
    /\ dispatches' = CreateDispatch(dispatches)

(***************************************************************************)
(* _execute_task starts: status RUNNING, then the handler is looked up     *)
(* under the task's name.  With a handler the coroutine suspends in        *)
(* wait_for.  Without one the ValueError raised inside the try block is    *)
(* caught by `except Exception` and the coroutine runs to its end.         *)
(***************************************************************************)
\* Fault variant: the coroutine does not set the status when it starts.
StartExecute_LeavesStatus(e) ==
    LET t == e.task
        T1 == tasks
        handler == handlers[tasks[t].name]
    IN  /\ BagIn(e, execs)
        /\ e.pc = "created"
        /\ IF handler # NoHandler
           THEN /\ tasks' = T1
                /\ execs' = (execs (-) One(e)) (+) One(Exec(t, "awaiting", handler))
                /\ attempts' = [attempts EXCEPT ![t] = @ + 1]
                /\ UNCHANGED <<queue, running, completed, running_count,
                               dispatches>>
           ELSE LET r == OnException(T1, queue, t, NoHandlerError(tasks[t].name))
                IN  /\ tasks' = r.tasks
                    /\ queue' = r.queue
                    /\ execs' = execs (-) One(e)
                    /\ Finally(t)
                    /\ UNCHANGED attempts
        /\ UNCHANGED <<max_concurrent, handlers, cancelledQueued, pausedSubmits>>

\* Fault variant: a name that has a handler is run by the handler first
\* registered for it, whatever was registered since.
StartExecute_FirstHandler(e) ==
    LET t == e.task
        T1 == [tasks EXCEPT ![t].status = RUNNING]
        handler == IF handlers[tasks[t].name] = NoHandler THEN NoHandler
                   ELSE "double_handler"
    IN  /\ BagIn(e, execs)
        /\ e.pc = "created"
        /\ IF handler # NoHandler
           THEN /\ tasks' = T1
                /\ execs' = (execs (-) One(e)) (+) One(Exec(t, "awaiting", handler))
                /\ attempts' = [attempts EXCEPT ![t] = @ + 1]
                /\ UNCHANGED <<queue, running, completed, running_count,
                               dispatches>>
           ELSE LET r == OnException(T1, queue, t, NoHandlerError(tasks[t].name))
                IN  /\ tasks' = r.tasks
                    /\ queue' = r.queue
                    /\ execs' = execs (-) One(e)
                    /\ Finally(t)
                    /\ UNCHANGED attempts
        /\ UNCHANGED <<max_concurrent, handlers, cancelledQueued, pausedSubmits>>

StartExecute(e) ==
    LET t == e.task
        T1 == [tasks EXCEPT ![t].status = RUNNING]
        handler == handlers[tasks[t].name]
    IN  /\ BagIn(e, execs)
        /\ e.pc = "created"
        /\ IF handler # NoHandler
           THEN /\ tasks' = T1
                /\ execs' = (execs (-) One(e)) (+) One(Exec(t, "awaiting", handler))
                /\ attempts' = [attempts EXCEPT ![t] = @ + 1]
                /\ UNCHANGED <<queue, running, completed, running_count,
                               dispatches>>
           ELSE LET r == OnException(T1, queue, t, NoHandlerError(tasks[t].name))
                IN  /\ tasks' = r.tasks
                    /\ queue' = r.queue
                    /\ execs' = execs (-) One(e)
                    /\ Finally(t)
                    /\ UNCHANGED attempts
        /\ UNCHANGED <<max_concurrent, handlers, cancelledQueued, pausedSubmits>>

(***************************************************************************)
(* _execute_task resumes: the awaited handler returned (o = "ok"), raised  *)
(* (o = "raise") or wait_for timed out (o = "timeout").                    *)
(***************************************************************************)
FinishExecute(e, o) ==
    LET t == e.task
        r == CASE o = "ok" -> OnSuccess(tasks, queue, t, e.handler)
               [] o = "timeout" -> OnTimeout(tasks, queue, t)
               [] o = "raise" -> OnException(tasks, queue, t, HandlerError)
    IN  /\ BagIn(e, execs)
        /\ e.pc = "awaiting"
        /\ tasks' = r.tasks
        /\ queue' = r.queue
        /\ execs' = execs (-) One(e)
        /\ Finally(t)
        /\ UNCHANGED <<max_concurrent, handlers, cancelledQueued,
                       pausedSubmits, attempts>>

(***************************************************************************)
(* cancel(task_id): the queue is rebuilt without the id and heapified;     *)
(* a task found in _running is marked CANCELLED and True is returned;      *)
(* otherwise False is returned.  id 0 is an id that was never submitted.   *)
(***************************************************************************)
\* Fault variant: True is returned whether or not the id was found.
CancelReturn_Always(id) == TRUE

CancelReturn(id) == id \in running

\* Fault variant: the queue is heapified without the id being filtered out.
CancelQueue_KeepsTask(id) == Heapify(queue, tasks)

CancelQueue(id) == Heapify(SelectSeq(queue, LAMBDA x : x # id), tasks)

\* Fault variant: the task is marked wherever it is, running or not.
CancelTasks_MarksAny(id) ==
    IF id \in TaskIds THEN [tasks EXCEPT ![id].status = CANCELLED] ELSE tasks

CancelTasks(id) ==
    IF id \in running THEN [tasks EXCEPT ![id].status = CANCELLED] ELSE tasks

\* Fault variant: a task found in _running is also taken out of it and the
\* counter is decremented.
Cancel_FreesSlot(id) ==
    /\ queue' = CancelQueue(id)
    /\ tasks' = CancelTasks(id)
    /\ running' = running \ {id}
    /\ running_count' = IF id \in running THEN running_count - 1
                        ELSE running_count
    /\ cancelledQueued' = IF InQueue(id) THEN cancelledQueued \cup {id}
                          ELSE cancelledQueued
    /\ UNCHANGED <<max_concurrent, completed, handlers, dispatches, execs,
                   pausedSubmits, attempts>>

Cancel(id) ==
    /\ queue' = CancelQueue(id)
    /\ tasks' = CancelTasks(id)
    /\ cancelledQueued' = IF InQueue(id) THEN cancelledQueued \cup {id}
                          ELSE cancelledQueued
    /\ UNCHANGED <<max_concurrent, running, completed, handlers,
                   running_count, dispatches, execs, pausedSubmits, attempts>>

(***************************************************************************)
(* The scheduler under its callers and the event loop.  Tasks are created  *)
(* with the default priority and any retry budget; a task that starts      *)
(* before its handler is registered finds no handler.                      *)
(***************************************************************************)
Register == RegisterHandler("double", "double_handler")

Submit ==
    /\ Len(tasks) < MaxTasks
    /\ \E pl \in Payloads, mr \in RetryBudgets :
           SubmitTask(NORMAL, 0, "double", pl, mr)

Start == \E e \in BagToSet(execs) : StartExecute(e)

Finish == \E e \in BagToSet(execs), o \in {"ok", "raise", "timeout"} :
              FinishExecute(e, o)

CancelCall == \E id \in {0} \cup TaskIds : Cancel(id)

Next ==
    \/ Register
    \/ Submit
    \/ ProcessQueue
    \/ Start
    \/ Finish
    \/ CancelCall

Spec == Init /\ [][Next]_vars

(***************************************************************************)
(* The scheduler of test_priority_ordering: one handler, "track", tasks of *)
(* any priority and creation time with the default retry budget, handlers  *)
(* that return, registered before the first submit.  A scheduler           *)
(* constructed with max_concurrent = 0 is                                  *)
(* resumed by setting max_concurrent to 1 and awaiting _process_queue      *)
(* directly, which runs the pass at once.                                  *)
(***************************************************************************)
Resume ==
    LET r == ProcessLoop(queue, running, running_count, execs, 1, tasks)
    IN  /\ max_concurrent = 0
        /\ max_concurrent' = 1
        /\ queue' = r.queue
        /\ running' = r.running
        /\ running_count' = r.running_count
        /\ execs' = r.execs
        /\ UNCHANGED <<completed, handlers, tasks, dispatches,
                       cancelledQueued, pausedSubmits, attempts>>

RegisterTrack == RegisterHandler("track", "tracking_handler")

SubmitOrder ==
    /\ Len(tasks) < MaxOrderTasks
    /\ handlers["track"] # NoHandler
    /\ \E p \in {CRITICAL, HIGH, LOW}, c \in CreationTimes, pl \in Payloads :
           SubmitTask(p, c, "track", pl, DefaultMaxRetries)

FinishOk == \E e \in BagToSet(execs) : FinishExecute(e, "ok")

NextOrder ==
    \/ RegisterTrack
    \/ SubmitOrder
    \/ ProcessQueue
    \/ Start
    \/ FinishOk
    \/ Resume

SpecOrder == Init /\ [][NextOrder]_vars

(***************************************************************************)
(* Helpers of the properties.                                              *)
(***************************************************************************)
Max(a, b) == IF a >= b THEN a ELSE b

\* The executions of task t that are in flight.
ExecsOf(t) == {e \in BagToSet(execs) : e.task = t}

StatusIs(st) == {t \in TaskIds : tasks[t].status = st}

(***************************************************************************)
(* C1.  Concurrency bound: with max_concurrent fixed, the number of        *)
(* executions in flight (admitted by a dispatch pass and not yet           *)
(* finished), and with it the number of tasks in RUNNING status, never     *)
(* exceeds max_concurrent.                                                 *)
(***************************************************************************)
C1_ConcurrencyBound ==
    /\ BagCardinality(execs) <= max_concurrent
    /\ Cardinality(StatusIs(RUNNING)) <= max_concurrent

\* The bound bites: every slot is taken and a task waits in the queue.
C1_Witness ==
    /\ max_concurrent >= 1
    /\ BagCardinality(execs) = max_concurrent
    /\ Cardinality(StatusIs(RUNNING)) = max_concurrent
    /\ queue # <<>>

(***************************************************************************)
(* C2.  Retry termination.  A task all of whose attempts ended in a        *)
(* handler exception and that is FAILED: every unit of retries came from   *)
(* a handler invocation, and the last error is the handler's.              *)
(***************************************************************************)
RaisedEveryAttempt(t) ==
    /\ tasks[t].status = FAILED
    /\ tasks[t].error = <<"Intentional failure">>
    /\ attempts[t] = tasks[t].retries

\* C2 as stated: for every max_retries = R >= 0, a task whose handler
\* raises on every attempt ends FAILED with retries = R exactly.
C2_RetriesEqualBudget ==
    \A t \in TaskIds :
        RaisedEveryAttempt(t) => tasks[t].retries = tasks[t].max_retries

\* C2 as amended: such a task ends FAILED with retries = max(1, R) (R for
\* R >= 1, and 1 for R = 0), no task ever has more retries than that, and
\* the failed task is not requeued: it is neither in the queue nor in
\* flight.
C2_RetriesMaxOneBudget ==
    \A t \in TaskIds :
        /\ tasks[t].retries <= Max(1, tasks[t].max_retries)
        /\ RaisedEveryAttempt(t) =>
               /\ tasks[t].retries = Max(1, tasks[t].max_retries)
               /\ ~InQueue(t)
               /\ ExecsOf(t) = {}

\* The case of the retry test: budget 2, two failed attempts, FAILED.
C2_Witness ==
    \E t \in TaskIds :
        /\ RaisedEveryAttempt(t)
        /\ tasks[t].max_retries = 2
        /\ tasks[t].retries = 2

(***************************************************************************)
(* C3.  Missing handler.  The step in which the execution e of a task      *)
(* starts while no handler is registered under the task's name.            *)
(***************************************************************************)
StartsWithoutHandler(e) ==
    /\ handlers[tasks[e.task].name] = NoHandler
    /\ StartExecute(e)

C4_CancelReturn ==
    [][\A id \in {0} \cup TaskIds :
           Cancel(id) =>
               /\ InQueue(id) => CancelReturn(id)
               /\ id \in running => CancelReturn(id)
               /\ ~CancelReturn(id) => (~InQueue(id) /\ id \notin running)]_vars

(***************************************************************************)
(* C5.  After cancel(id) on a task that is in the Ready Queue, the task's  *)
(* status is CANCELLED in every later state.                               *)
(***************************************************************************)
C5_QueuedCancelMarksCancelled ==
    \A t \in cancelledQueued : tasks[t].status = CANCELLED

(***************************************************************************)
(* C6.  A task cancelled while it is in the Ready Queue is removed from    *)
(* the queue and is never afterwards in the queue, in the running set, in  *)
(* flight or RUNNING, and its handler is never invoked again.              *)
(***************************************************************************)
C6_CancelledQueuedNeverRuns ==
    [][\A t \in cancelledQueued' :
           /\ ~InSeq(queue', t)
           /\ t \notin running'
           /\ tasks'[t].status # RUNNING
           /\ \A e \in BagToSet(execs') : e.task # t
           /\ t \in cancelledQueued => attempts'[t] = attempts[t]]_vars

\* A task was cancelled in the queue and a task submitted after it has
\* been admitted and has completed.
C6_Witness ==
    \E t \in cancelledQueued :
        \E u \in TaskIds : u > t /\ tasks[u].status = COMPLETED

(***************************************************************************)
(* C7.  Single ownership: every task is held by at most one of the Ready   *)
(* Queue, the running set and the completed table.                         *)
(***************************************************************************)
C7_SingleOwnership ==
    \A t \in TaskIds :
        /\ ~(InQueue(t) /\ t \in running)
        /\ ~(InQueue(t) /\ t \in completed)
        /\ ~(t \in running /\ t \in completed)

(***************************************************************************)
(* Ordering keys, read from the task table.                                *)
(***************************************************************************)
KeyLE(a, b) ==
    \/ tasks[a].priority < tasks[b].priority
    \/ /\ tasks[a].priority = tasks[b].priority
       /\ tasks[a].created_at <= tasks[b].created_at

\* The tasks a step admits to the running set.
Admitted == running' \ running

(***************************************************************************)
(* C8 as stated.  Priority ordering: the tasks are admitted in             *)
(* non-decreasing priority order, and in submission order among equal      *)
(* priorities: a task admitted in an earlier step than t has a smaller     *)
(* priority, or the same priority and an earlier submission.               *)
(***************************************************************************)
C8_AdmittedInSubmissionOrder ==
    [][\A t \in Admitted :
           \A u \in TaskIds \ Admitted :
               ~InQueue(u) =>
                   \/ tasks[u].priority < tasks[t].priority
                   \/ tasks[u].priority = tasks[t].priority /\ u < t]_vars

(***************************************************************************)
(* C8 as amended.  Every admission takes a task whose (priority,           *)
(* created_at) key is no greater than the key of any task left in the      *)
(* Ready Queue: tasks that wait together are admitted in non-decreasing    *)
(* priority order and, among equal priorities, in created_at order.        *)
(***************************************************************************)
C8_AdmitsSmallestKey ==
    [][\A t \in Admitted :
           \A i \in 1..Len(queue') : KeyLE(t, queue'[i])]_vars

\* A task is admitted ahead of a task submitted before it that still waits.
C8_Witness ==
    \E t \in running :
        \E i \in 1..Len(queue) :
            /\ queue[i] < t
            /\ tasks[t].priority < tasks[queue[i]].priority

(***************************************************************************)
(* C9.  The tasks submitted while max_concurrent = 0, once max_concurrent  *)
(* is set to 1 and a dispatch pass is run, and while no handler has        *)
(* failed: their handlers are started one at a time, in non-decreasing     *)
(* priority order, whatever the order of submission.                       *)
(***************************************************************************)
NoFailureYet ==
    \A u \in TaskIds : tasks[u].retries = 0 /\ tasks[u].error = None

C9_PausedSetStartsInPriorityOrder ==
    [][\A t \in pausedSubmits :
           (attempts'[t] > attempts[t] /\ NoFailureYet) =>
               /\ \A e \in BagToSet(execs) : e.pc # "awaiting"
               /\ \A u \in pausedSubmits :
                      attempts[u] > 0 =>
                          tasks[u].priority <= tasks[t].priority]_vars

\* The test's case: LOW, HIGH, CRITICAL submitted in this order while
\* paused; CRITICAL and HIGH have completed and LOW is running.
C9_Witness ==
    /\ pausedSubmits = {1, 2, 3}
    /\ tasks[1].priority = LOW /\ tasks[1].status = RUNNING
    /\ tasks[2].priority = HIGH /\ tasks[2].status = COMPLETED
    /\ tasks[3].priority = CRITICAL /\ tasks[3].status = COMPLETED
    /\ attempts = <<1, 1, 1>>

(***************************************************************************)
(* C10.  Timeout precedence: an attempt that times out sets the task       *)
(* FAILED with the timeout error, leaves retries as it was and does not    *)
(* requeue the task, whatever max_retries is; a task that times out on     *)
(* its first attempt is FAILED with retries = 0.                           *)
(***************************************************************************)
C10_TimeoutIsTerminal ==
    [][\A e \in BagToSet(execs) :
           FinishExecute(e, "timeout") =>
               /\ tasks'[e.task].status = FAILED
               /\ tasks'[e.task].error = <<"Task timed out">>
               /\ tasks'[e.task].retries = tasks[e.task].retries
               /\ ~InSeq(queue', e.task)
               /\ \A x \in BagToSet(execs') : x.task # e.task]_vars

\* A first attempt timed out with retry budget left.
C10_Witness ==
    \E t \in TaskIds :
        /\ tasks[t].status = FAILED
        /\ tasks[t].error = <<"Task timed out">>
        /\ attempts[t] = 1
        /\ tasks[t].retries = 0
        /\ tasks[t].max_retries = 2
        /\ ~InQueue(t)

(***************************************************************************)
(* C11 as stated.  Terminal statuses are absorbing: once a task's status   *)
(* is COMPLETED, FAILED or CANCELLED, no later step changes it.            *)
(***************************************************************************)
C11_TerminalAbsorbing ==
    [][\A t \in TaskIds :
           tasks[t].status \in {"completed", "failed", "cancelled"} =>
               tasks'[t].status = tasks[t].status]_vars

(***************************************************************************)
(* C11 as amended.  COMPLETED and FAILED are absorbing.  CANCELLED is      *)
(* not: it is only ever set on a task in the running set, whose execution  *)
(* is still in flight, and that execution overwrites it when it starts or  *)
(* finishes.                                                               *)
(***************************************************************************)
C11_CompletedFailedAbsorbing ==
    [][/\ \A t \in TaskIds :
              tasks[t].status \in {"completed", "failed"} =>
                  tasks'[t].status = tasks[t].status
       /\ \A t \in DOMAIN tasks' :
              tasks'[t].status = "cancelled" =>
                  /\ t \in running'
                  /\ \E e \in BagToSet(execs') : e.task = t]_vars

\* A task finished while another, cancelled while running, is CANCELLED.
C11_Witness ==
    \E t, u \in TaskIds :
        /\ tasks[t].status \in {"completed", "failed"}
        /\ t \in completed
        /\ tasks[u].status = "cancelled"

(***************************************************************************)
(* C12.  result and error are mutually exclusive: no task has both a       *)
(* populated result and a populated error, and a COMPLETED task has no     *)
(* error recorded, also when it failed on an earlier attempt and           *)
(* succeeded on a retry.                                                   *)
(***************************************************************************)
C12_ResultErrorExclusive ==
    \A t \in TaskIds :
        /\ ~(tasks[t].result # None /\ tasks[t].error # None)
        /\ tasks[t].status = "completed" => tasks[t].error = None

(***************************************************************************)
(* get_status(task_id): the task, looked up in _running, then in           *)
(* _completed, then in the queue; None when it is in none of them.  It     *)
(* writes nothing.                                                          *)
(***************************************************************************)
GetStatus(id) ==
    IF id \in running THEN <<tasks[id]>>
    ELSE IF id \in completed THEN <<tasks[id]>>
    ELSE IF InQueue(id) THEN <<tasks[id]>>
    ELSE None

(***************************************************************************)
(* C13.  get_status(id) returns the task for every id that has ever been   *)
(* submitted, in every later state and wherever the task lives, also       *)
(* after the task was cancelled; it returns None only for ids that were    *)
(* never submitted.                                                        *)
(***************************************************************************)
C13_StatusOfEverySubmitted ==
    /\ \A id \in TaskIds : GetStatus(id) = <<tasks[id]>>
    /\ GetStatus(0) = None

\* The ids held by a heap array.
Contents(q) == {q[i] : i \in 1..Len(q)}

(***************************************************************************)
(* C14.  cancel(id) and get_status(id) for an id that was never submitted  *)
(* (id 0) report not-found as a value, False and None, and leave the       *)
(* tasks held by the Ready Queue, the running set, the completed table,    *)
(* the in-flight counter and every task's status as they were.  (The heap  *)
(* array itself is rebuilt by heapify and may come out in another order.)  *)
(***************************************************************************)
C14_UnknownIdNotFound ==
    [][Cancel(0) =>
           /\ CancelReturn(0) = FALSE
           /\ GetStatus(0) = <<>>
           /\ Contents(queue') = Contents(queue)
           /\ Len(queue') = Len(queue)
           /\ running' = running
           /\ completed' = completed
           /\ running_count' = running_count
           /\ \A t \in TaskIds : tasks'[t].status = tasks[t].status]_vars

\* Two untouched tasks wait in the queue in an array order that only the
\* heapify of a cancel of an unknown id produces.
C14_Witness ==
    /\ queue = <<2, 1>>
    /\ cancelledQueued = {}
    /\ \A t \in TaskIds : tasks[t].retries = 0 /\ tasks[t].status = "queued"
    /\ GetStatus(0) = <<>>

(***************************************************************************)
(* C15.  submit(task) returns the task's own id, and when it returns the   *)
(* task is QUEUED and in the Ready Queue and nothing has been admitted:    *)
(* the running set, the counter and the executions in flight are as        *)
(* before and a dispatch pass is pending, even when a handler is           *)
(* registered and a slot is free.                                          *)
(***************************************************************************)
C15_SubmitOnlyEnqueues ==
    [][Len(tasks') = Len(tasks) + 1 =>
           /\ SubmitReturn = Len(tasks')
           /\ tasks'[SubmitReturn].status = "queued"
           /\ InSeq(queue', SubmitReturn)
           /\ Len(queue') = Len(queue) + 1
           /\ SubmitReturn \notin running'
           /\ running' = running
           /\ running_count' = running_count
           /\ execs' = execs
           /\ dispatches' >= 1]_vars

\* A task has just been submitted with its handler registered and a slot
\* free: it waits in the queue for the pending dispatch pass.
C15_Witness ==
    \E t \in TaskIds :
        /\ InQueue(t)
        /\ tasks[t].status = "queued"
        /\ tasks[t].retries = 0
        /\ handlers[tasks[t].name] # NoHandler
        /\ running_count < max_concurrent
        /\ running = {}
        /\ dispatches >= 1

(***************************************************************************)
(* C16.  Paused configuration: while max_concurrent = 0 every submitted    *)
(* task that was not cancelled is in the Ready Queue with status QUEUED;   *)
(* no dispatch pass pops a task, the in-flight counter is 0, nothing is    *)
(* running or in flight and no handler has been invoked, for any number    *)
(* of submissions.                                                         *)
(***************************************************************************)
C16_PausedAdmitsNothing ==
    max_concurrent = 0 =>
        /\ \A t \in TaskIds \ cancelledQueued :
               InQueue(t) /\ tasks[t].status = "queued"
        /\ running = {}
        /\ running_count = 0
        /\ execs = EmptyBag
        /\ completed = {}
        /\ \A t \in TaskIds : attempts[t] = 0 /\ tasks[t].retries = 0

\* Paused, with a handler registered: every dispatch pass created by the
\* submissions has run and the tasks still wait.
C16_Witness ==
    /\ max_concurrent = 0
    /\ Len(tasks) = MaxTasks
    /\ Len(queue) = MaxTasks
    /\ dispatches = 0
    /\ handlers["double"] # NoHandler

(***************************************************************************)
(* C17.  A task whose registered handler returns within the timeout on     *)
(* the task's first attempt ends COMPLETED with the handler's value for    *)
(* its payload as result (value * 2 for `double`), retries = 0 and no      *)
(* error, and get_status then finds it in the completed table.             *)
(***************************************************************************)
C17_FirstAttemptSuccess ==
    [][\A e \in BagToSet(execs) :
           (/\ FinishExecute(e, "ok")
            /\ attempts[e.task] = 1
            /\ tasks[e.task].retries = 0) =>
               /\ tasks'[e.task].status = "completed"
               /\ e.handler = "double_handler" =>
                      tasks'[e.task].result = <<tasks[e.task].payload * 2>>
               /\ tasks'[e.task].retries = 0
               /\ tasks'[e.task].error = <<>>
               /\ e.task \in completed'
               /\ e.task \notin running'
               /\ GetStatus(e.task)' = <<tasks'[e.task]>>]_vars

\* The case of test_execute_task: payload 21, result 42.
C17_Witness ==
    \E t \in TaskIds :
        /\ tasks[t].status = "completed"
        /\ tasks[t].payload = 21
        /\ tasks[t].result = <<42>>
        /\ tasks[t].retries = 0
        /\ tasks[t].error = <<>>
        /\ attempts[t] = 1
        /\ t \in completed
        /\ GetStatus(t) = <<tasks[t]>>

(***************************************************************************)
(* The scheduler on a running event loop.  The loop runs every task that   *)
(* is ready, so a _process_queue task that was created is run and an       *)
(* _execute_task task that was created is started; every awaited handler   *)
(* returns, raises or is timed out by wait_for.                            *)
(***************************************************************************)
\* Retry budgets of the tasks: no retry (0; 1 gives the same single
\* attempt) and the retry test's 2.
LiveRetryBudgets == {0, 2}

SubmitLive ==
    /\ Len(tasks) < MaxTasks
    /\ \E pl \in Payloads, mr \in LiveRetryBudgets :
           SubmitTask(NORMAL, 0, "double", pl, mr)

NextLive ==
    \/ Register
    \/ SubmitLive
    \/ ProcessQueue
    \/ Start
    \/ Finish
    \/ CancelCall

SpecLive ==
    /\ Init
    /\ [][NextLive]_vars
    /\ WF_vars(ProcessQueue)
    /\ WF_vars(Start)
    /\ WF_vars(Finish)

\* A step in which an _execute_task coroutine runs to its end.
ExecutionEnds == BagCardinality(execs') < BagCardinality(execs)

Settled(t) ==
    /\ t \in TaskIds
    /\ tasks[t].status \in {"completed", "failed"}
    /\ ~InQueue(t)
    /\ ExecsOf(t) = {}

(***************************************************************************)
(* C18.  Progress and failure isolation.  Every execution that ends, by    *)
(* success, handler exception, timeout or missing handler, decrements      *)
(* the in-flight counter by one and leaves a dispatch pass pending.  With  *)
(* max_concurrent >= 1, again and again every task submitted so far is     *)
(* COMPLETED or FAILED and out of the queue, unless it was cancelled       *)
(* while queued: so every task in the Ready Queue is eventually admitted   *)
(* and eventually COMPLETED or FAILED, whatever happens to the others.     *)
(***************************************************************************)
AllSettled ==
    max_concurrent >= 1 =>
        \A t \in TaskIds : Settled(t) \/ t \in cancelledQueued

C18_Progress ==
    /\ [][ExecutionEnds =>
              /\ running_count' = running_count - 1
              /\ dispatches' >= 1]_vars
    /\ []<>AllSettled

\* With one slot, the first task has failed after using its retry budget
\* and the second has completed after it.
C18_Witness ==
    /\ max_concurrent = 1
    /\ Len(tasks) >= 2
    /\ tasks[1].status = "failed"
    /\ tasks[1].retries = 2
    /\ tasks[2].status = "completed"
    /\ Settled(1) /\ Settled(2)
    /\ running_count = 0

(***************************************************************************)
(* C19.  Retry step: an attempt that ends in a handler exception           *)
(* increments the task's retries by exactly 1 and records the error; the   *)
(* task is requeued with status QUEUED if and only if the incremented      *)
(* retries is below max_retries, and is FAILED and out of the queue        *)
(* otherwise; priority, created_at and max_retries are unchanged.          *)
(***************************************************************************)
C19_RetryStep ==
    [][\A e \in BagToSet(execs) :
           FinishExecute(e, "raise") =>
               /\ tasks'[e.task].retries = tasks[e.task].retries + 1
               /\ tasks'[e.task].error = <<"Intentional failure">>
               /\ IF tasks[e.task].retries + 1 < tasks[e.task].max_retries
                  THEN /\ tasks'[e.task].status = "queued"
                       /\ InSeq(queue', e.task)
                       /\ Len(queue') = Len(queue) + 1
                  ELSE /\ tasks'[e.task].status = "failed"
                       /\ ~InSeq(queue', e.task)
                       /\ queue' = queue
               /\ tasks'[e.task].priority = tasks[e.task].priority
               /\ tasks'[e.task].created_at = tasks[e.task].created_at
               /\ tasks'[e.task].max_retries = tasks[e.task].max_retries]_vars

\* A task requeued after its handler raised once, with budget 2, while
\* another has failed on its only attempt.
C19_Witness ==
    \E t, u \in TaskIds :
        /\ tasks[t].status = "queued"
        /\ InQueue(t)
        /\ tasks[t].retries = 1
        /\ attempts[t] = 1
        /\ tasks[t].max_retries = 2
        /\ tasks[t].error = <<"Intentional failure">>
        /\ tasks[u].status = "failed"
        /\ tasks[u].retries = 1
        /\ attempts[u] = 1
        /\ tasks[u].error = <<"Intentional failure">>

(***************************************************************************)
(* The scheduler with tasks of several priorities and creation times       *)
(* whose handler may raise and which may be cancelled: the heap sees       *)
(* pushes by submit, pops by the dispatch pass, re-pushes by the retry     *)
(* and removals by cancel.  The handler is registered before the first     *)
(* submit; a paused scheduler is resumed as in test_priority_ordering.     *)
(***************************************************************************)
MaxHeapTasks == 3

HeapPriorities == {CRITICAL, HIGH, LOW}

\* One retry after a failed attempt.
HeapRetryBudget == 2

SubmitHeap ==
    /\ Len(tasks) < MaxHeapTasks
    /\ handlers["track"] # NoHandler
    /\ \E p \in HeapPriorities, c \in CreationTimes, pl \in Payloads :
           SubmitTask(p, c, "track", pl, HeapRetryBudget)

FinishHeap == \E e \in BagToSet(execs), o \in {"ok", "raise"} :
                  FinishExecute(e, o)

CancelHeap == \E id \in TaskIds : Cancel(id)

NextHeap ==
    \/ RegisterTrack
    \/ SubmitHeap
    \/ ProcessQueue
    \/ Start
    \/ FinishHeap
    \/ CancelHeap
    \/ Resume

SpecHeap == Init /\ [][NextHeap]_vars

(***************************************************************************)
(* C20.  Every admission pops the minimum: whenever a dispatch pass        *)
(* admits a task, no task then in the Ready Queue has a strictly smaller   *)
(* (priority, created_at) key, after any sequence of pushes, pops, retry   *)
(* re-pushes and cancel removals; so a task admitted while a task          *)
(* submitted before it still waits never has the greater priority value.   *)
(***************************************************************************)
C20_AdmissionPopsMinimum ==
    [][\A t \in Admitted :
           \A i \in 1..Len(queue') :
               LET u == queue'[i]
               IN  /\ ~(tasks[u].priority < tasks[t].priority)
                   /\ ~(/\ tasks[u].priority = tasks[t].priority
                        /\ tasks[u].created_at < tasks[t].created_at)]_vars

\* A CRITICAL task submitted after a LOW task that still waits has been
\* admitted ahead of it, the heap having seen a retry re-push and a cancel
\* removal.
C20_Witness ==
    \E t \in running :
        \E i \in 1..Len(queue) :
            /\ queue[i] < t
            /\ tasks[t].priority = CRITICAL
            /\ tasks[queue[i]].priority = LOW
            /\ cancelledQueued # {}
            /\ \E u \in TaskIds : tasks[u].retries >= 1

(***************************************************************************)
(* The scheduler with tasks of one priority created at the same instant,   *)
(* so that every comparison of two tasks is a tie; handlers return, and    *)
(* a paused scheduler is resumed as in test_priority_ordering.  No task    *)
(* is requeued or cancelled: a task is pushed once, by submit, and the     *)
(* order of the pushes is the order of the ids.                            *)
(***************************************************************************)
MaxTieTasks == 4

SubmitTie ==
    /\ Len(tasks) < MaxTieTasks
    /\ handlers["track"] # NoHandler
    /\ \E pl \in Payloads :
           SubmitTask(NORMAL, 0, "track", pl, DefaultMaxRetries)

NextTie ==
    \/ RegisterTrack
    \/ SubmitTie
    \/ ProcessQueue
    \/ Start
    \/ FinishOk
    \/ Resume

SpecTie == Init /\ [][NextTie]_vars

(***************************************************************************)
(* C21.  Tie-break by insertion order: tasks of equal priority and equal   *)
(* created_at are popped from the Ready Queue in the order they were       *)
(* pushed: a pass never admits a task while a task of the same key that    *)
(* was pushed before it still waits.                                       *)
(***************************************************************************)
C21_TiesPoppedInPushOrder ==
    [][\A t \in Admitted :
           \A i \in 1..Len(queue') :
               (/\ tasks[queue'[i]].priority = tasks[t].priority
                /\ tasks[queue'[i]].created_at = tasks[t].created_at) =>
                   t < queue'[i]]_vars

(***************************************************************************)
(* C22.  Retry seniority: a task requeued after a failed attempt is        *)
(* admitted before every task of the same priority that was created        *)
(* later and is in the Ready Queue at the same time: no pass admits a      *)
(* task while a requeued task of the same priority and an earlier          *)
(* created_at waits.                                                       *)
(***************************************************************************)
C22_RetrySeniority ==
    [][\A u \in Admitted :
           ~\E i \in 1..Len(queue') :
               /\ tasks[queue'[i]].retries >= 1
               /\ tasks[queue'[i]].priority = tasks[u].priority
               /\ tasks[queue'[i]].created_at < tasks[u].created_at]_vars

\* A requeued task runs its second attempt while a task of its priority,
\* created and submitted after it, waits in the queue.
C22_Witness ==
    \E t \in running :
        \E i \in 1..Len(queue) :
            /\ tasks[t].retries = 1
            /\ attempts[t] = 2
            /\ queue[i] > t
            /\ tasks[queue[i]].priority = tasks[t].priority
            /\ tasks[queue[i]].created_at > tasks[t].created_at
            /\ tasks[queue[i]].retries = 0

(***************************************************************************)
(* C23 as stated.  Admission marks RUNNING: no task in the running set     *)
(* has status QUEUED, and the in-flight counter counts exactly the tasks   *)
(* popped for execution and not yet finished.                              *)
(***************************************************************************)
C23_AdmissionMarksRunning ==
    /\ \A t \in running : tasks[t].status # "queued"
    /\ running_count = BagCardinality(execs)

(***************************************************************************)
(* C23 as amended.  The dispatch pass that pops a task adds it to the      *)
(* running set and increments the in-flight counter in the same step and   *)
(* leaves its status QUEUED; the status becomes RUNNING when the task's    *)
(* execution starts.  A task in the running set is QUEUED only while its   *)
(* execution has not started, an execution awaiting its handler has a      *)
(* task that is RUNNING (or CANCELLED by a cancel), and the counter        *)
(* counts exactly the tasks popped for execution and not yet finished.     *)
(***************************************************************************)
C23_RunningMarkedAtStart ==
    [][/\ \A t \in Admitted :
              /\ tasks[t].status = "queued"
              /\ tasks'[t].status = "queued"
       /\ running_count' = running_count + Cardinality(running' \ running)
                               - Cardinality(running \ running')
       /\ running_count' = BagCardinality(execs')
       /\ \A t \in running' :
              tasks'[t].status = "queued" =>
                  \E e \in BagToSet(execs') : e.task = t /\ e.pc = "created"
       /\ \A e \in BagToSet(execs') :
              e.pc = "awaiting" =>
                  tasks'[e.task].status \in {"running", "cancelled"}
       /\ \A e \in BagToSet(execs) :
              (StartExecute(e) /\ handlers[tasks[e.task].name] # NoHandler) =>
                  tasks'[e.task].status = "running"]_vars

\* Between the pass that admitted it and the start of its execution, a
\* task is in the running set, counted, and still QUEUED.
C23_Witness ==
    \E t \in running :
        /\ tasks[t].status = "queued"
        /\ running_count = 1
        /\ \E e \in BagToSet(execs) : e.task = t /\ e.pc = "created"
        /\ ~InQueue(t)

(***************************************************************************)
(* The lifecycle graph: submit, admit, success, failure, retry, cancel of  *)
(* a queued and of a running task, and the overwrite of a running task's   *)
(* CANCELLED flag by its completion.                                       *)
(***************************************************************************)
LifecycleEdges ==
    { <<"pending", "queued">>,
      <<"queued", "running">>,
      <<"running", "completed">>,
      <<"running", "failed">>,
      <<"running", "queued">>,
      <<"queued", "cancelled">>,
      <<"running", "cancelled">>,
      <<"cancelled", "completed">>,
      <<"cancelled", "failed">>,
      <<"cancelled", "queued">> }

\* The statuses task t is assigned in a step, after the one it has: an
\* execution that finds no handler assigns RUNNING and then the outcome.
StatusPath(t) ==
    IF t \notin TaskIds
    THEN <<"pending", tasks'[t].status>>
    ELSE IF \E e \in BagToSet(execs) : e.task = t /\ StartsWithoutHandler(e)
         THEN <<tasks[t].status, "running", tasks'[t].status>>
         ELSE <<tasks[t].status, tasks'[t].status>>

FollowsEdges(path, edges) ==
    \A i \in 1..(Len(path) - 1) :
        path[i] = path[i + 1] \/ <<path[i], path[i + 1]>> \in edges

(***************************************************************************)
(* C24 as stated.  Every status change of a task follows an edge of the    *)
(* lifecycle graph, and no task's status ever returns to PENDING.          *)
(***************************************************************************)
C24_FollowsLifecycle ==
    [][\A t \in DOMAIN tasks' :
           /\ FollowsEdges(StatusPath(t), LifecycleEdges)
           /\ tasks'[t].status # "pending"]_vars

(***************************************************************************)
(* C24 as amended.  Every status change follows an edge of the lifecycle   *)
(* graph or the edge CANCELLED -> RUNNING, taken when the execution of a   *)
(* task that was cancelled between its admission and its start begins;     *)
(* no task's status ever returns to PENDING.                               *)
(***************************************************************************)
C24_FollowsLifecycleOrStart ==
    [][\A t \in DOMAIN tasks' :
           /\ FollowsEdges(StatusPath(t),
                           LifecycleEdges \cup {<<"cancelled", "running">>})
           /\ tasks'[t].status # "pending"]_vars

\* A task cancelled after its admission and before its start, with its
\* handler registered, while another task has gone through a retry to
\* COMPLETED.
C24_Witness ==
    \E t, u \in TaskIds :
        /\ tasks[t].status = "cancelled"
        /\ \E e \in BagToSet(execs) : e.task = t /\ e.pc = "created"
        /\ handlers[tasks[t].name] # NoHandler
        /\ tasks[u].status = "completed"
        /\ tasks[u].retries >= 1

\* The status the completion path assigns for an outcome of the handler.
OutcomeStatus(t, o) ==
    CASE o = "ok" -> "completed"
      [] o = "timeout" -> "failed"
      [] o = "raise" -> IF tasks[t].retries + 1 < tasks[t].max_retries
                        THEN "queued"
                        ELSE "failed"

(***************************************************************************)
(* C25.  Cancelling a task in the running set is advisory: cancel sets     *)
(* its status to CANCELLED and returns True, and leaves the running set,   *)
(* the in-flight counter and the execution as they are; when the handler   *)
(* later finishes, the completion path sets COMPLETED, FAILED or QUEUED    *)
(* by the outcome, whatever the flag, and only then frees the slot.        *)
(***************************************************************************)
C25_RunningCancelAdvisory ==
    [][/\ \A id \in running :
              Cancel(id) =>
                  /\ CancelReturn(id) = TRUE
                  /\ tasks'[id].status = "cancelled"
                  /\ running' = running
                  /\ running_count' = running_count
                  /\ execs' = execs
       /\ \A e \in BagToSet(execs), o \in {"ok", "raise", "timeout"} :
              (FinishExecute(e, o) /\ tasks[e.task].status = "cancelled") =>
                  /\ tasks'[e.task].status = OutcomeStatus(e.task, o)
                  /\ e.task \notin running'
                  /\ running_count' = running_count - 1
       /\ \A t \in DOMAIN tasks' :
              tasks'[t].status = "cancelled" =>
                  /\ t \in running'
                  /\ running_count' >= 1]_vars

\* A task cancelled while its handler is awaited still holds the only
\* slot, and another task waits in the queue.
C25_Witness ==
    \E t \in running :
        /\ tasks[t].status = "cancelled"
        /\ \E e \in BagToSet(execs) : e.task = t /\ e.pc = "awaiting"
        /\ running_count = max_concurrent
        /\ queue # <<>>

(***************************************************************************)
(* The scheduler with a registry that changes under the tasks: either      *)
(* handler is registered under "double" at any time, the later call        *)
(* replacing the earlier one; handlers return or raise.                    *)
(***************************************************************************)
RegisterAny == \E h \in Handlers : RegisterHandler("double", h)

\* One attempt, or one retry after a failed attempt.
ResolveRetryBudgets == {1, 2}

SubmitResolve ==
    /\ Len(tasks) < MaxTasks
    /\ \E pl \in Payloads, mr \in ResolveRetryBudgets :
           SubmitTask(NORMAL, 0, "double", pl, mr)

FinishResolve == \E e \in BagToSet(execs), o \in {"ok", "raise"} :
                     FinishExecute(e, o)

NextResolve ==
    \/ RegisterAny
    \/ SubmitResolve
    \/ ProcessQueue
    \/ Start
    \/ FinishResolve

SpecResolve == Init /\ [][NextResolve]_vars

\* The handler an execution of t that starts now resolves.
Resolved(t) == handlers[tasks[t].name]

\* The execution of e's task starts now and awaits the handler registered
\* now; its value, when it returns, is that handler's.
UsesHandlerOfStart(e) ==
    /\ BagIn(Exec(e.task, "awaiting", Resolved(e.task)), execs')
    /\ attempts'[e.task] = attempts[e.task] + 1

C27_TerminalTaskFrozen ==
    [][/\ \A t \in TaskIds :
              tasks[t].status \in {"completed", "failed"} =>
                  /\ tasks'[t] = tasks[t]
                  /\ t \in completed /\ t \in completed'
                  /\ GetStatus(t) = <<tasks[t]>>
                  /\ GetStatus(t)' = GetStatus(t)
       /\ \A t \in DOMAIN tasks' :
              tasks'[t].status \in {"completed", "failed"} =>
                  /\ t \in completed'
                  /\ t \notin running'
                  /\ ~InSeq(queue', t)
                  /\ GetStatus(t)' = <<tasks'[t]>>]_vars

\* The first task completed with its result; the second, submitted after
\* it, has since run to FAILED.
C27_Witness ==
    /\ Len(tasks) >= 2
    /\ tasks[1].status = "completed"
    /\ tasks[1].result = <<42>>
    /\ tasks[2].status = "failed"
    /\ tasks[2].error = <<"Task timed out">>
    /\ {1, 2} \subseteq completed
    /\ GetStatus(1) = <<tasks[1]>>

\* The number of executions of task t in flight.
InFlight(t) ==
    BagCardinality([e \in ExecsOf(t) |-> CopiesIn(e, execs)])

(***************************************************************************)
(* C28.  No double execution: under redundant dispatch passes and retry    *)
(* requeues a task is admitted only from the queue and only while no       *)
(* execution of it is in flight, the pass that pops it takes it out of     *)
(* the queue, the queue never holds a task twice, a task with an           *)
(* execution in flight is not in the queue, and at most one execution of   *)
(* any task is in flight at any time.                                      *)
(***************************************************************************)
C28_NoDoubleExecution ==
    [][/\ \A t \in Admitted :
              /\ InQueue(t)
              /\ ExecsOf(t) = {}
              /\ ~InSeq(queue', t)
       /\ Cardinality(Contents(queue')) = Len(queue')
       /\ \A t \in DOMAIN tasks' :
              LET n == BagCardinality(
                           [e \in {x \in BagToSet(execs') : x.task = t}
                                |-> CopiesIn(e, execs')])
              IN  /\ n <= 1
                  /\ n = 1 => ~InSeq(queue', t)
                  /\ n = 1 <=> t \in running']_vars

\* A task requeued by a failed attempt waits in the queue with no
\* execution in flight while two dispatch passes are pending and a slot
\* is free.
C28_Witness ==
    \E t \in TaskIds :
        /\ InQueue(t)
        /\ tasks[t].retries >= 1
        /\ InFlight(t) = 0
        /\ dispatches = 2
        /\ running_count < max_concurrent

(***************************************************************************)
(* stats(): the lengths of the queue and of the completed dict, the        *)
(* in-flight counter and max_concurrent.                                   *)
(***************************************************************************)
Stats ==
    [queued |-> Len(queue),
     running |-> running_count,
     completed |-> Cardinality(completed),
     max_concurrent |-> max_concurrent]

\* The executions that run to their end in a step.
Ended == BagCardinality(execs) + Cardinality(Admitted) - BagCardinality(execs')

(***************************************************************************)
(* C29.  In-flight accounting: the counter stats() reports as 'running'    *)
(* is never negative and equals the number of entries of the running       *)
(* set; every admission increments it exactly once and every finished      *)
(* execution decrements it exactly once.                                   *)
(***************************************************************************)
C29_InFlightAccounting ==
    [][/\ Stats'.running >= 0
       /\ Stats'.running = Cardinality(running')
       /\ Stats.running = Cardinality(running)
       /\ Stats'.running = Stats.running + Cardinality(Admitted) - Ended
       /\ Ended \in {0, 1}
       /\ Cardinality(running') =
              Cardinality(running) + Cardinality(Admitted) - Ended]_vars

\* A second task has been admitted into the slot that the first one's
\* finished execution gave back.
C29_Witness ==
    /\ completed # {}
    /\ Stats.running = 1
    /\ \E t \in running : t \notin completed
    /\ Stats.completed = 1

(***************************************************************************)
(* C30.  Bounded attempts: the handler of a task is invoked at most        *)
(* max(1, max_retries) times; for a task whose handler raised on every     *)
(* attempt and that is FAILED it was invoked exactly max(1, max_retries)   *)
(* times (max_retries counts the attempts, not the retries after the       *)
(* first); and the handler is never invoked again for a FAILED task.       *)
(***************************************************************************)
C30_BoundedAttempts ==
    [][/\ \A t \in DOMAIN tasks' :
              /\ attempts'[t] <= Max(1, tasks'[t].max_retries)
              /\ (/\ tasks'[t].status = "failed"
                  /\ tasks'[t].error = <<"Intentional failure">>
                  /\ attempts'[t] = tasks'[t].retries) =>
                     /\ attempts'[t] = Max(1, tasks'[t].max_retries)
                     /\ \A e \in BagToSet(execs') : e.task # t
       /\ \A t \in TaskIds :
              tasks[t].status = "failed" => attempts'[t] = attempts[t]]_vars

\* A task with max_retries 0 failed after one invocation, one with
\* max_retries 2 after two.
C30_Witness ==
    \E t, u \in TaskIds :
        /\ RaisedEveryAttempt(t)
        /\ tasks[t].max_retries = 0
        /\ attempts[t] = 1
        /\ RaisedEveryAttempt(u)
        /\ tasks[u].max_retries = 2
        /\ attempts[u] = 2

=============================================================================
